---- MODULE Spec2Model ----
(***************************************************************************)
(* 3GPP TS 23.032 GAD (Universal Geographical Area Description) codec of   *)
(* libosmocore: src/gsm/gad.c.                                             *)
(*                                                                         *)
(* Representation of C integers.  TLC integers are 32 bits wide, so        *)
(*  - a 32-bit word (int32_t, uint32_t, enum gad_type) is held as the      *)
(*    value of its bit pattern read as int32_t.  A uint32_t return value   *)
(*    that the callers store in an int32_t (osmo_gad_dec_lat/lon) thus     *)
(*    keeps its pattern; unsigned comparison is U32Gt;                     *)
(*  - a non-negative int64_t intermediate is held as a pair <<hi, lo>>     *)
(*    meaning hi * 2^24 + lo with 0 <= lo < 2^24; the sign of a negative   *)
(*    intermediate is carried separately, as C's division truncates        *)
(*    towards zero.                                                        *)
(***************************************************************************)
EXTENDS Integers, Sequences, FiniteSets, TLC

VARIABLES
    \* test_gad_lat_lon_dec_enc_stability / clamp usage of the quantizer
    q_kind, q_in, q_code, q_deg, q_code2,
    \* test_gad_enc_dec: the msgb, the PDU handed to osmo_gad_enc, its result
    msg, pdu, enc_rc, sent,
    \* the PDU osmo_gad_dec writes to, its input, its result, the error record
    gad, d_data, d_len, d_err, dec_rc, err, d_called

qvars == <<q_kind, q_in, q_code, q_deg, q_code2>>
evars == <<msg, pdu, enc_rc, sent>>
dvars == <<gad, d_data, d_len, d_err, dec_rc, err, d_called>>
vars == <<qvars, evars, dvars>>

-----------------------------------------------------------------------------
(* Bounds of the model *)

\* how many values next to each boundary of a quantizer domain are sampled
EdgeWidth == 16
\* how many evenly spread values of a quantizer domain are sampled
NSamples == 1000
\* how many frames the msgb of a session may hold (msgb_alloc(1024) in the test)
MaxFrames == 2

-----------------------------------------------------------------------------
(* C integer arithmetic *)

B12 == 2^12
B23 == 2^23
B24 == 2^24

Abs(a) == IF a < 0 THEN -a ELSE a

\* bit n of a non-negative value
Bit(a, n) == (a \div 2^n) % 2

\* unsigned comparison a > b of two 32-bit patterns
U32Gt(a, b) ==
    IF (a < 0) = (b < 0) THEN a > b ELSE a < 0

\* <<hi, lo>> with lo brought back into 0 .. 2^24 - 1
Norm(hi, lo) == <<hi + (lo \div B24), lo % B24>>

\* int64 product a * d of 0 <= a < 2^24 and 0 < d < 2^29, by 12-bit limbs:
\* a = a1 * 2^12 + a0, d = d1 * 2^12 + d0
MulU(a, d) ==
    LET a1 == a \div B12
        a0 == a % B12
        d1 == d \div B12
        d0 == d % B12
        mid == (a0 * d1) + (a1 * d0)
    IN  Norm((a1 * d1) + (mid \div B12), ((mid % B12) * B12) + (a0 * d0))

\* the n low bits of lo shifted into the long division by d; r is the running
\* remainder, q the quotient so far
RECURSIVE DivBits(_, _, _, _, _)
DivBits(r, lo, n, d, q) ==
    IF n = 0 THEN q
    ELSE LET r2 == 2 * r + Bit(lo, n - 1)
         IN  IF r2 >= d
             THEN DivBits(r2 - d, lo, n - 1, d, 2 * q + 1)
             ELSE DivBits(r2, lo, n - 1, d, 2 * q)

\* int64 quotient of the non-negative p = <<hi, lo>> by d > 0
DivU(p, d) ==
    (p[1] \div d) * B24 + DivBits(p[1] % d, p[2], 24, d, 0)

-----------------------------------------------------------------------------
(* Quantizer: latitude *)

\* 90 * 1000000
LatScale == 90 * 1000000
\* 360 * 1000000
LonScale == 360 * 1000000

\* mutant: the rounding offset x += (1 << 23) - 1 is left out
osmo_gad_enc_lat_noround(lat_deg_1e6) ==
    LET sign == IF lat_deg_1e6 < 0 THEN B23 ELSE 0
        a == Abs(lat_deg_1e6)
        x1 == <<a \div 2, (a % 2) * B23>>
        x3 == DivU(x1, LatScale)
    IN  sign + (x3 % B23)

osmo_gad_enc_lat(lat_deg_1e6) ==
    LET sign == IF lat_deg_1e6 < 0 THEN B23 ELSE 0       \* sign = 1 << 23
        a == Abs(lat_deg_1e6)                            \* lat = -lat
        x1 == <<a \div 2, (a % 2) * B23>>                \* x <<= 23
        x2 == Norm(x1[1], x1[2] + (B23 - 1))             \* x += (1 << 23) - 1
        x3 == DivU(x2, LatScale)                         \* x /= 90 * 1000000
    IN  sign + (x3 % B23)                                \* sign | (x & 0x7fffff)

\* lat is a 24-bit code; the result is the int32_t pattern of the returned uint32_t
osmo_gad_dec_lat(lat) ==
    LET neg == Bit(lat, 23) = 1                          \* lat & 0x800000
        m == IF neg THEN lat % B23 ELSE lat              \* lat &= 0x7fffff
        x1 == MulU(m, LatScale)                          \* x *= 90 * 1000000
        x2 == (2 * x1[1]) + (x1[2] \div B23)                \* x >>= 23
    IN  IF neg THEN -x2 ELSE x2                          \* x *= sign

-----------------------------------------------------------------------------
(* Quantizer: longitude *)

\* mutant: the offset is added for negative longitudes too
osmo_gad_enc_lon_addonly(lon_deg_1e6) ==
    LET a == Abs(lon_deg_1e6)
        x == IF lon_deg_1e6 >= 0
             THEN DivU(<<a, B24 - 1>>, LonScale)
             ELSE -DivU(IF a = 0 THEN <<0, 0>> ELSE <<a - 1, 1>>, LonScale)
    IN  x % B24

osmo_gad_enc_lon(lon_deg_1e6) ==
    LET a == Abs(lon_deg_1e6)                            \* |x * (1 << 24)| = a * 2^24
        \* x += (1 << 24) - 1 for lon >= 0, x -= (1 << 24) - 1 otherwise:
        \* in both cases the magnitude grows by 2^24 - 1
        mag == <<a, B24 - 1>>
        q == DivU(mag, LonScale)                         \* x /= 360 * 1000000
        x == IF lon_deg_1e6 >= 0 THEN q ELSE -q          \* truncation towards zero
    IN  x % B24                                          \* x & 0xffffff

\* lon is a 24-bit code; the result is the int32_t pattern of the returned uint32_t
osmo_gad_dec_lon(lon) ==
    LET s == IF Bit(lon, 23) = 1 THEN lon - B24 ELSE lon \* lon |= 0xff000000
        p == MulU(Abs(s), LonScale)                      \* x *= 360 * 1000000
        q == p[1]                                        \* x /= (1 << 24)
    IN  IF s < 0 THEN -q ELSE q

-----------------------------------------------------------------------------
(* Quantizer: uncertainty *)

table_uncertainty_1e3 == <<
    0, 1000, 2100, 3310, 4641, 6105, 7715, 9487, 11435, 13579, 15937, 18531, 21384, 24522, 27974, 31772, 35949,
    40544, 45599, 51159, 57274, 64002, 71402, 79543, 88497, 98347, 109181, 121099, 134209, 148630, 164494, 181943,
    201137, 222251, 245476, 271024, 299126, 330039, 364043, 401447, 442592, 487851, 537636, 592400, 652640, 718904,
    791795, 871974, 960172, 1057189, 1163908, 1281299, 1410429, 1552472, 1708719, 1880591, 2069650, 2277615,
    2506377, 2758014, 3034816, 3339298, 3674227, 4042650, 4447915, 4893707, 5384077, 5923485, 6516834, 7169517,
    7887469, 8677216, 9545938, 10501531, 11552685, 12708953, 13980849, 15379933, 16918927, 18611820, 20474002,
    22522402, 24775642, 27254206, 29980627, 32979690, 36278659, 39907525, 43899277, 48290205, 53120226, 58433248,
    64277573, 70706330, 77777964, 85556760, 94113436, 103525780, 113879358, 125268293, 137796123, 151576735,
    166735409, 183409950, 201751945, 221928139, 244121953, 268535149, 295389664, 324929630, 357423593, 393166952,
    432484648, 475734112, 523308524, 575640376, 633205414, 696526955, 766180651, 842799716, 927080688, 1019789756,
    1121769732, 1233947705, 1357343476, 1493078824, 1642387706, 1806627477 >>

\* ARRAY_SIZE(table_uncertainty_1e3)
TableSize == Len(table_uncertainty_1e3)

\* the table is indexed from 0 in C, a sequence from 1 here
osmo_gad_dec_unc(unc) == table_uncertainty_1e3[(unc % 128) + 1]

\* variant: returns the index the loop stopped at, not the one before it
osmo_gad_enc_unc_noback(mm) ==
    LET hits == {unc \in 0..(TableSize - 1) : U32Gt(table_uncertainty_1e3[unc + 1], mm)}
        first == CHOOSE unc \in hits : \A o \in hits : unc <= o
    IN  IF hits # {} THEN first ELSE 127

\* variant: compares the table entry with mm as signed 32-bit values
osmo_gad_enc_unc_signed(mm) ==
    LET hits == {unc \in 0..(TableSize - 1) : table_uncertainty_1e3[unc + 1] > mm}
        first == CHOOSE unc \in hits : \A o \in hits : unc <= o
    IN  IF hits # {}
        THEN (first - 1) % 256
        ELSE 127

\* the for loop returns at the first index whose table entry exceeds mm (a
\* uint32_t pattern), and 127 when it runs to the end of the table
osmo_gad_enc_unc(mm) ==
    LET hits == {unc \in 0..(TableSize - 1) : U32Gt(table_uncertainty_1e3[unc + 1], mm)}
        first == CHOOSE unc \in hits : \A o \in hits : unc <= o
    IN  IF hits # {}
        THEN (first - 1) % 256                           \* return unc - 1, as uint8_t
        ELSE 127

-----------------------------------------------------------------------------
(* Inputs of the quantizer runs *)

\* the values of lo .. hi within EdgeWidth of c
Near(c, lo, hi) == {v \in (c - EdgeWidth)..(c + EdgeWidth) : lo <= v /\ v <= hi}

\* NSamples values spread over lo .. hi
Spread(lo, hi) ==
    {v \in {lo + ((hi - lo) \div NSamples) * k + k : k \in 0..(NSamples - 1)} : v <= hi}

\* 24-bit codes: both ends, both sides of the sign bit, and a spread
CodeSamples ==
    Near(0, 0, B24 - 1) \cup Near(B23, 0, B24 - 1) \cup Near(B24 - 1, 0, B24 - 1)
        \cup Spread(0, B24 - 1)

\* latitudes of the documented domain -90'000'000 .. 90'000'000
LatSamples ==
    Near(-LatScale, -LatScale, LatScale) \cup Near(0, -LatScale, LatScale)
        \cup Near(LatScale, -LatScale, LatScale) \cup Spread(-LatScale, LatScale)

\* longitudes of the documented domain -180'000'000 .. 180'000'000
LonMax == LonScale \div 2
LonSamples ==
    Near(-LonMax, -LonMax, LonMax) \cup Near(0, -LonMax, LonMax)
        \cup Near(LonMax, -LonMax, LonMax) \cup Spread(-LonMax, LonMax)

\* the uncertainty codes: 7 bits
UncCodes == 0..(TableSize - 1)

\* the largest uint32_t pattern that is not negative as a 32-bit integer
I32Max == (127 * B24) + (B24 - 1)

\* uint32_t millimeters, as 32-bit patterns: each table entry and its two
\* neighbours (the one below entry 0 is 0xffffffff), a spread below 2^31, and
\* a spread from 2^31 (the negative patterns) up to 0xffffffff
UncSamples ==
    LET below == {I32Max - d : d \in 0..EdgeWidth} \cup Spread(0, I32Max)
    IN  {table_uncertainty_1e3[k + 1] + d : k \in UncCodes, d \in {-1, 0, 1}}
            \cup below
            \cup {(-v) - 1 : v \in below \cup (0..EdgeWidth)}

-----------------------------------------------------------------------------
(* Quantizer runs: each behaviour is one run on one input *)

QInit ==
    /\ q_kind = "none"
    /\ q_in = 0
    /\ q_code = 0
    /\ q_deg = 0
    /\ q_code2 = 0

\* one pass of the latitude loop of test_gad_lat_lon_dec_enc_stability
TestLatCode ==
    \E lat_enc \in CodeSamples :
        LET lat_dec == osmo_gad_dec_lat(lat_enc)
        IN  /\ q_kind = "none"
            /\ q_kind' = "lat_code"
            /\ q_in' = lat_enc
            /\ q_code' = lat_enc
            /\ q_deg' = lat_dec
            /\ q_code2' = osmo_gad_enc_lat(lat_dec)

\* one pass of the longitude loop of test_gad_lat_lon_dec_enc_stability
TestLonCode ==
    \E lon_enc \in CodeSamples :
        LET lon_dec == osmo_gad_dec_lon(lon_enc)
        IN  /\ q_kind = "none"
            /\ q_kind' = "lon_code"
            /\ q_in' = lon_enc
            /\ q_code' = lon_enc
            /\ q_deg' = lon_dec
            /\ q_code2' = osmo_gad_enc_lon(lon_dec)

\* set_lat = osmo_gad_dec_lat(osmo_gad_enc_lat(orig_lat)), then encoded again
ClampLat ==
    \E orig_lat \in LatSamples :
        LET enc == osmo_gad_enc_lat(orig_lat)
            set_lat == osmo_gad_dec_lat(enc)
        IN  /\ q_kind = "none"
            /\ q_kind' = "lat_deg"
            /\ q_in' = orig_lat
            /\ q_code' = enc
            /\ q_deg' = set_lat
            /\ q_code2' = osmo_gad_enc_lat(set_lat)

\* set_lon = osmo_gad_dec_lon(osmo_gad_enc_lon(orig_lon)), then encoded again
ClampLon ==
    \E orig_lon \in LonSamples :
        LET enc == osmo_gad_enc_lon(orig_lon)
            set_lon == osmo_gad_dec_lon(enc)
        IN  /\ q_kind = "none"
            /\ q_kind' = "lon_deg"
            /\ q_in' = orig_lon
            /\ q_code' = enc
            /\ q_deg' = set_lon
            /\ q_code2' = osmo_gad_enc_lon(set_lon)

\* an uncertainty code decoded by osmo_gad_dec_unc, the millimeters encoded
\* again by osmo_gad_enc_unc
TestUncCode ==
    \E unc \in UncCodes :
        LET mm == osmo_gad_dec_unc(unc)
        IN  /\ q_kind = "none"
            /\ q_kind' = "unc_code"
            /\ q_in' = unc
            /\ q_code' = unc
            /\ q_deg' = mm
            /\ q_code2' = osmo_gad_enc_unc(mm)

\* a distance in millimeters encoded by osmo_gad_enc_unc, the code decoded
\* again by osmo_gad_dec_unc
ClampUnc ==
    \E mm \in UncSamples :
        LET unc == osmo_gad_enc_unc(mm)
        IN  /\ q_kind = "none"
            /\ q_kind' = "unc_mm"
            /\ q_in' = mm
            /\ q_code' = unc
            /\ q_deg' = osmo_gad_dec_unc(unc)
            /\ q_code2' = osmo_gad_enc_unc(osmo_gad_dec_unc(unc))

-----------------------------------------------------------------------------
(* PDUs, errno values, type names *)

\* errno.h, as used by osmo_gad_enc / DEC_ERR
ENOTSUP == 95
EINVAL == 22

GAD_TYPE_ELL_POINT_UNC_CIRCLE == 1

\* struct gad_pdu as the caller sees its memory: the type word, the three words
\* of ell_point_unc_circle, and `rest`, the value every byte of the union
\* behind ell_point_unc_circle holds (0 after zero-initialization)
Pdu(type, lat, lon, unc, rest) ==
    [type |-> type, lat |-> lat, lon |-> lon, unc |-> unc, rest |-> rest]

\* the 32-bit word whose four bytes are b
Word(b) ==
    IF b >= 128
    THEN ((b - 256) * B24) + (b * (2^16 + 2^8 + 1))
    ELSE (b * B24) + (b * (2^16 + 2^8 + 1))

\* memset(&dec_pdu, b, sizeof(dec_pdu))
memset(b) == Pdu(Word(b), Word(b), Word(b), Word(b), b)

\* (struct gad_pdu){}
ZeroPdu == Pdu(0, 0, 0, 0, 0)

osmo_gad_type_names == <<
    <<0, "Ellipsoid-point">>,
    <<1, "Ellipsoid-point-with-uncertainty-circle">>,
    <<3, "Ellipsoid-point-with-uncertainty-ellipse">>,
    <<5, "Polygon">>,
    <<8, "Ellipsoid-point-with-altitude">>,
    <<9, "Ellipsoid-point-with-altitude-and-uncertainty-ellipsoid">>,
    <<10, "Ellipsoid-arc">>,
    <<11, "High-accuracy-ellipsoid-point-with-uncertainty-ellipse">>,
    <<12, "High-accuracy-ellipsoid-point-with-altitude-and-uncertainty-ellipsoid">> >>

\* the name of the first entry with this value; the text "unknown 0x%x" printed
\* from the value when there is none.  A text is kept as the tuple of its pieces.
get_value_string(names, val) ==
    LET hits == {i \in 1..Len(names) : names[i][1] = val}
        first == CHOOSE i \in hits : \A o \in hits : i <= o
    IN  IF hits # {} THEN <<names[first][2]>> ELSE <<"unknown 0x", val>>

osmo_gad_type_name(val) == get_value_string(osmo_gad_type_names, val)

-----------------------------------------------------------------------------
(* msgb and byte access *)

\* msgb_put_u8: one byte appended at the tail
msgb_put_u8(m, b) == Append(m, b)

\* osmo_load32be_ext_2(&data[ofs], 3): ofs counts from 0 as in C
osmo_load32be_ext_2(data, ofs) ==
    (data[ofs + 1] * 2^16) + (data[ofs + 2] * 2^8) + data[ofs + 3]

\* variant: the three bytes are stored least significant byte first
put_u24le(m, val) ==
    m \o << val % 256, (val \div 2^8) % 256, (val \div 2^16) % 256 >>

\* msgb_put(msg, 3) and osmo_store32be_ext(val, pos, 3)
put_u24be(m, val) ==
    m \o << (val \div 2^16) % 256, (val \div 2^8) % 256, val % 256 >>

-----------------------------------------------------------------------------
(* Error Reporter *)

\* *err = NULL
NULL == << >>

\* DEC_ERR without its return: the record left in *err, if the caller gave an
\* err.  TYPE is -1 or a type code; the message is kept as the pieces it is
\* printed from: "Error decoding GAD", " " and the type name when TYPE >= 0,
\* ": ", the format and its argument.
DEC_ERR(want_err, RC, TYPE, fmt, args) ==
    IF want_err
    THEN << [rc |-> RC,
             type |-> TYPE,
             logmsg |-> << "Error decoding GAD",
                           IF TYPE >= 0 THEN " " ELSE "",
                           IF TYPE >= 0 THEN osmo_gad_type_name(TYPE) ELSE <<"">>,
                           ": ", fmt, args >>] >>
    ELSE NULL

-----------------------------------------------------------------------------
(* Variant Codec: ellipsoid point with uncertainty circle *)

\* the msgb after the call; the return value is the growth of the msgb
osmo_gad_enc_ell_point_unc_circle(m, v) ==
    LET m1 == msgb_put_u8(m, GAD_TYPE_ELL_POINT_UNC_CIRCLE * 16)
        m2 == put_u24be(m1, osmo_gad_enc_lat(v.lat))
        m3 == put_u24be(m2, osmo_gad_enc_lon(v.lon))
        m4 == msgb_put_u8(m3, osmo_gad_enc_unc(v.unc))
    IN  [msg |-> m4, rc |-> Len(m4) - Len(m)]            \* msg->tail - old_tail

\* mutant: the reserved bit of the uncertainty byte is not checked
osmo_gad_dec_ell_point_unc_circle_nocheck(v, want_err, data, len) ==
    IF len # 8
    THEN [v |-> v, rc |-> -EINVAL,
          err |-> DEC_ERR(want_err, -EINVAL, -1,
                          "Expecting length of 8 bytes, got %u", <<len>>)]
    ELSE [v |-> [v EXCEPT !.lat = osmo_gad_dec_lat(osmo_load32be_ext_2(data, 1)),
                          !.lon = osmo_gad_dec_lon(osmo_load32be_ext_2(data, 4)),
                          !.unc = osmo_gad_dec_unc(data[8])],
          rc |-> 0, err |-> NULL]

\* v: the PDU whose ell_point_unc_circle is written; err: what DEC_ERR leaves in
\* *err (NULL when it was not called).  data[i] of C is data[i + 1] here.
osmo_gad_dec_ell_point_unc_circle(v, want_err, data, len) ==
    IF len # 8
    THEN [v |-> v, rc |-> -EINVAL,
          err |-> DEC_ERR(want_err, -EINVAL, -1,
                          "Expecting length of 8 bytes, got %u", <<len>>)]
    ELSE LET v1 == [v EXCEPT !.lat = osmo_gad_dec_lat(osmo_load32be_ext_2(data, 1))]
             v2 == [v1 EXCEPT !.lon = osmo_gad_dec_lon(osmo_load32be_ext_2(data, 4))]
             unc == data[8]
         IN  IF Bit(unc, 7) = 1                          \* unc & 0x80
             THEN [v |-> v2, rc |-> -EINVAL,
                   err |-> DEC_ERR(want_err, -EINVAL, -1,
                                   "Bit 8 of Uncertainty code should be zero (unc = 0x%x)",
                                   <<unc>>)]
             ELSE [v |-> [v2 EXCEPT !.unc = osmo_gad_dec_unc(unc)],
                   rc |-> 0, err |-> NULL]

-----------------------------------------------------------------------------
(* Dispatcher *)

\* mutant: an unsupported type still gets its type byte written
osmo_gad_enc_typebyte(m, p) ==
    IF p.type = GAD_TYPE_ELL_POINT_UNC_CIRCLE
    THEN osmo_gad_enc_ell_point_unc_circle(m, p)
    ELSE [msg |-> msgb_put_u8(m, (p.type % 16) * 16), rc |-> -ENOTSUP]

osmo_gad_enc(m, p) ==
    IF p.type = GAD_TYPE_ELL_POINT_UNC_CIRCLE
    THEN osmo_gad_enc_ell_point_unc_circle(m, p)
    ELSE [msg |-> m, rc |-> -ENOTSUP]

\* mutant: the type of the error record of an unsupported type is left unset
osmo_gad_dec_notype(g, want_err, data, len) ==
    IF len < 1
    THEN [gad |-> g, rc |-> -EINVAL,
          err |-> DEC_ERR(want_err, -EINVAL, -1, "zero length", << >>)]
    ELSE LET g1 == [ZeroPdu EXCEPT !.type = data[1] \div 16]
         IN  IF g1.type = GAD_TYPE_ELL_POINT_UNC_CIRCLE
             THEN LET r == osmo_gad_dec_ell_point_unc_circle(g1, want_err, data, len)
                  IN  [gad |-> r.v, rc |-> r.rc,
                       err |-> IF want_err /\ r.err # NULL
                               THEN << [r.err[1] EXCEPT !.type = g1.type] >>
                               ELSE r.err]
             ELSE [gad |-> g1, rc |-> -ENOTSUP,
                   err |-> DEC_ERR(want_err, -ENOTSUP, -1, "unsupported GAD type", << >>)]

\* mutant: the PDU is not zero-initialized before its type is written
osmo_gad_dec_nozero(g, want_err, data, len) ==
    IF len < 1
    THEN [gad |-> g, rc |-> -EINVAL,
          err |-> DEC_ERR(want_err, -EINVAL, -1, "zero length", << >>)]
    ELSE LET g1 == [g EXCEPT !.type = data[1] \div 16]
         IN  IF g1.type = GAD_TYPE_ELL_POINT_UNC_CIRCLE
             THEN LET r == osmo_gad_dec_ell_point_unc_circle(g1, want_err, data, len)
                  IN  [gad |-> r.v, rc |-> r.rc,
                       err |-> IF want_err /\ r.err # NULL
                               THEN << [r.err[1] EXCEPT !.type = g1.type] >>
                               ELSE r.err]
             ELSE [gad |-> g1, rc |-> -ENOTSUP,
                   err |-> DEC_ERR(want_err, -ENOTSUP, g1.type, "unsupported GAD type", << >>)]

\* g: the caller's PDU before the call.  The result holds the PDU after the
\* call, the return value and what *err holds (when the caller gave an err).
osmo_gad_dec(g, want_err, data, len) ==
    IF len < 1
    THEN [gad |-> g, rc |-> -EINVAL,
          err |-> DEC_ERR(want_err, -EINVAL, -1, "zero length", << >>)]
    ELSE LET g1 == [ZeroPdu EXCEPT !.type = data[1] \div 16]  \* *gad = {}; type = data[0] >> 4
         IN  IF g1.type = GAD_TYPE_ELL_POINT_UNC_CIRCLE
             THEN LET r == osmo_gad_dec_ell_point_unc_circle(g1, want_err, data, len)
                  IN  [gad |-> r.v, rc |-> r.rc,
                       \* if (err && *err) (*err)->type = gad->type
                       err |-> IF want_err /\ r.err # NULL
                               THEN << [r.err[1] EXCEPT !.type = g1.type] >>
                               ELSE r.err]
             ELSE [gad |-> g1, rc |-> -ENOTSUP,
                   err |-> DEC_ERR(want_err, -ENOTSUP, g1.type, "unsupported GAD type", << >>)]

-----------------------------------------------------------------------------
(* Inputs of the codec sessions *)

\* what an uninitialized or memset PDU holds in every byte
StaleBytes == {0, 127, 255}

\* codes whose decoded values the PDUs carry: 0x20b60c and 0x1dddde are the
\* codes of gad_test_pdus (23000006, 42000002)
ExactLatCodes == {2143756, B23 + 1}
ExactLonCodes == {1957342, B23}
ExactLats == {osmo_gad_dec_lat(c) : c \in ExactLatCodes}
ExactLons == {osmo_gad_dec_lon(c) : c \in ExactLonCodes}
ExactUncs == {osmo_gad_dec_unc(c) : c \in 0..127}

\* the PDU of gad_test_pdus and others of its type: decoded values of codes,
\* values that are not (5 mm; the pole, the antimeridian, 0xffffffff mm), and
\* one PDU that carries bytes of another variant behind its three fields
CirclePdus ==
    {Pdu(GAD_TYPE_ELL_POINT_UNC_CIRCLE, lat, lon, 442592, 0) :
        lat \in ExactLats, lon \in ExactLons}
    \cup {Pdu(GAD_TYPE_ELL_POINT_UNC_CIRCLE, 23000006, 42000002, 5, 0),
          Pdu(GAD_TYPE_ELL_POINT_UNC_CIRCLE, 23000006, 42000002, 442592, 255),
          Pdu(GAD_TYPE_ELL_POINT_UNC_CIRCLE, LatScale, LonScale \div 2, Word(255), 0)}

\* PDUs of every other type: the standard codes, the unassigned ones, and
\* values no type nibble can hold
OtherTypes == ((0..16) \ {GAD_TYPE_ELL_POINT_UNC_CIRCLE}) \cup {Word(255)}
OtherPdus == {Pdu(t, 23000006, 42000002, 442592, 0) : t \in OtherTypes}

EncPdus == CirclePdus \cup OtherPdus

\* received bytes: byte 0, the two 24-bit codes, byte 7
Frame8(b0, lat, lon, b7) == put_u24be(put_u24be(<<b0>>, lat), lon) \o <<b7>>

RawFrames ==
    {Frame8(b0, lat, lon, b7) :
        b0 \in {16, 31}, lat \in ExactLatCodes, lon \in ExactLonCodes,
        b7 \in {40, 168, 255}}
    \cup {Frame8(n * 16, 2143756, 1957342, 40) : n \in 0..15}

\* <<data, len>>: the frame cut or extended to len bytes, and the whole frame
\* handed over with len = 0
RawInputs ==
    {<<SubSeq(f, 1, n), n>> : f \in RawFrames, n \in {0, 1, 7, 8}}
    \cup {<<f \o <<0>>, 9>> : f \in RawFrames}
    \cup {<<f, 0>> : f \in RawFrames}

-----------------------------------------------------------------------------
(* Codec sessions: test_gad_enc_dec, and the decoding of received bytes *)

CInit ==
    /\ msg = << >>                                       \* msgb_alloc
    /\ pdu = ZeroPdu
    /\ enc_rc = 0
    /\ sent = << >>
    /\ gad = ZeroPdu
    /\ d_data = << >>
    /\ d_len = 0
    /\ d_err = FALSE
    /\ dec_rc = 0
    /\ err = NULL
    /\ d_called = FALSE

\* rc = osmo_gad_enc(msg, pdu).  `sent` keeps the PDUs of the calls that
\* returned a length.  The msgb has room for MaxFrames frames.
Enc ==
    \E p \in EncPdus :
        /\ ~d_called
        /\ p.type = GAD_TYPE_ELL_POINT_UNC_CIRCLE => Len(msg) + 8 <= MaxFrames * 8
        /\ LET r == osmo_gad_enc(msg, p)
           IN  /\ msg' = r.msg
               /\ enc_rc' = r.rc
               /\ sent' = IF r.rc > 0 THEN Append(sent, p) ELSE sent
        /\ pdu' = p
        /\ UNCHANGED <<qvars, dvars>>

\* memset(&dec_pdu, b, sizeof(dec_pdu))
Memset ==
    \E b \in StaleBytes :
        /\ ~d_called
        /\ gad' = memset(b)
        /\ UNCHANGED <<qvars, evars, d_data, d_len, d_err, dec_rc, err, d_called>>

\* the call osmo_gad_dec(&dec_pdu, err, ctx, data, len) and what it leaves
DecCall(want_err, data, len) ==
    LET r == osmo_gad_dec(gad, want_err, data, len)
    IN  /\ gad' = r.gad
        /\ dec_rc' = r.rc
        /\ err' = r.err
        /\ d_data' = data
        /\ d_len' = len
        /\ d_err' = want_err
        /\ d_called' = TRUE

\* rc = osmo_gad_dec(&dec_pdu, &err, loop_ctx, msg->data, msg->len); len is a uint8_t
DecMsg ==
    \E want_err \in BOOLEAN :
        /\ enc_rc # 0
        /\ DecCall(want_err, msg, Len(msg) % 256)
        /\ UNCHANGED <<qvars, evars>>

\* received bytes are decoded; no msgb is involved
DecRaw ==
    \E in \in RawInputs, want_err \in BOOLEAN :
        /\ enc_rc = 0
        /\ DecCall(want_err, in[1], in[2])
        /\ UNCHANGED <<qvars, evars>>

-----------------------------------------------------------------------------
(* Specifications *)

Init == QInit /\ CInit

Next == Enc \/ Memset \/ DecMsg \/ DecRaw

Spec == Init /\ [][Next]_vars

QNext ==
    \/ TestLatCode /\ UNCHANGED <<evars, dvars>>
    \/ TestLonCode /\ UNCHANGED <<evars, dvars>>
    \/ ClampLat /\ UNCHANGED <<evars, dvars>>
    \/ ClampLon /\ UNCHANGED <<evars, dvars>>
    \/ TestUncCode /\ UNCHANGED <<evars, dvars>>
    \/ ClampUnc /\ UNCHANGED <<evars, dvars>>

SpecQuant == Init /\ [][QNext]_vars

-----------------------------------------------------------------------------
(* Properties of the quantizer, under SpecQuant *)

\* C1: every 24-bit latitude code that is decoded and encoded again gives the
\* same code, except 0x800000 (negative zero), which gives 0.
C1_LatCodeStable ==
    q_kind = "lat_code" => q_code2 = (IF q_in = B23 THEN 0 ELSE q_in)

\* a code of the southern hemisphere went through the loop
C1_Witness ==
    /\ q_kind = "lat_code"
    /\ q_in > B23
    /\ q_deg < 0
    /\ q_code2 = q_in

\* C2: every 24-bit longitude code that is decoded and encoded again gives the
\* same code, 0x800000 and the codes with bit 23 set included.
C2_LonCodeStable ==
    q_kind = "lon_code" => q_code2 = q_in

\* the code of the antimeridian went through the loop
C2_Witness ==
    /\ q_kind = "lon_code"
    /\ q_in = B23
    /\ q_deg = -LonMax
    /\ q_code2 = B23

\* C3: for every latitude of -90'000'000 .. 90'000'000, encoding the decoded
\* code again gives the code the latitude was encoded to.
C3_LatRequantStable ==
    q_kind = "lat_deg" => q_code2 = q_code

\* the largest error below one step: |d| < scale / 2^bits
MaxLatError == (LatScale - 1) \div B23
MaxLonError == (LonScale - 1) \div B24

\* C4: a latitude or longitude of the domain differs from its decoded code by
\* less than one step of the code (90'000'000 / 2^23, 360'000'000 / 2^24).
C4_WithinOneStep ==
    /\ q_kind = "lat_deg" => Abs(q_deg - q_in) <= MaxLatError
    /\ q_kind = "lon_deg" => Abs(q_deg - q_in) <= MaxLonError

\* C11: every uncertainty code of 0 .. 127 that is decoded to millimeters and
\* encoded again gives the same code.
C11_UncCodeStable ==
    q_kind = "unc_code" => q_code2 = q_in

\* the last code went through the round trip: the loop of osmo_gad_enc_unc
\* ran to the end of the table
C11_Witness ==
    /\ q_kind = "unc_code"
    /\ q_in = 127
    /\ q_deg = table_uncertainty_1e3[TableSize]
    /\ q_code2 = 127

\* unsigned a <= b of two 32-bit patterns
U32Le(a, b) == ~U32Gt(a, b)

\* C13: for every uint32_t mm the code of osmo_gad_enc_unc is in 0 .. 127, it
\* is the largest index whose table entry is at most mm (127 from the last
\* entry 1'806'627'477 on, 0 for mm = 0), and the code decodes to at most mm.
C13_UncLargestIndex ==
    q_kind = "unc_mm" =>
        /\ q_code \in 0..127
        /\ U32Le(table_uncertainty_1e3[q_code + 1], q_in)
        /\ \A k \in 0..127 : U32Le(table_uncertainty_1e3[k + 1], q_in) => k <= q_code
        /\ U32Le(table_uncertainty_1e3[128], q_in) => q_code = 127
        /\ q_in = 0 => q_code = 0
        /\ U32Le(q_deg, q_in)

\* a distance of 2^31 mm or more, negative as a signed value, was encoded
C13_Witness ==
    /\ q_kind = "unc_mm"
    /\ q_in < 0
    /\ q_code = 127
    /\ q_deg = table_uncertainty_1e3[TableSize]

-----------------------------------------------------------------------------
(* Properties of the codec, under Spec *)

\* lat, lon and unc are decoded values of codes
Exact(p) ==
    /\ p.lat \in ExactLats
    /\ p.lon \in ExactLons
    /\ p.unc \in ExactUncs

\* the msgb holds one frame, that of pdu, and it has been decoded
OneFrameDecoded ==
    /\ d_called
    /\ enc_rc > 0
    /\ Len(sent) = 1
    /\ pdu.type = GAD_TYPE_ELL_POINT_UNC_CIRCLE
    /\ Exact(pdu)

\* osmo_gad_enc returned 8, the number of bytes appended
EncReturnsLength ==
    (enc_rc > 0 /\ Exact(pdu)) => (enc_rc = 8 /\ Len(msg) = 8 * Len(sent))

\* C5 as stated: an EllPointUncCircle PDU of exactly representable values is
\* encoded to 8 bytes, and decoding them succeeds and gives a PDU equal to
\* the original in every byte, whatever the output PDU held before.
C5_RoundTripEveryByte ==
    /\ EncReturnsLength
    /\ OneFrameDecoded => (dec_rc = 0 /\ gad = pdu)

\* C5 as amended: the decoded PDU has the type, lat, lon and unc of the
\* original and zero in every other byte, so it equals the original in every
\* byte when the original holds zero outside these four fields.
C5_RoundTripFields ==
    /\ EncReturnsLength
    /\ OneFrameDecoded => (dec_rc = 0 /\ gad = [pdu EXCEPT !.rest = 0])

\* the PDU of the test went through osmo_gad_enc and osmo_gad_dec
C5_Witness ==
    /\ OneFrameDecoded
    /\ Len(msg) = 8
    /\ pdu = Pdu(GAD_TYPE_ELL_POINT_UNC_CIRCLE, 23000006, 42000002, 442592, 0)
    /\ gad = pdu
    /\ d_err

\* C6: after a failed osmo_gad_dec, a zero-length input included, the output
\* PDU holds nothing of what it held before: what the call did not write is 0.
C6_FailedDecodeZeroed ==
    (d_called /\ dec_rc # 0) =>
        /\ gad.rest = 0
        /\ gad.unc = 0
        /\ d_len = 0 => gad = ZeroPdu

\* C7: after a failed osmo_gad_dec of an EllPointUncCircle frame (wrong length
\* or reserved bit set), lat, lon and unc of the output PDU are all zero.
C7_FailedDecodeNotPopulated ==
    (d_called /\ dec_rc # 0 /\ d_len >= 1
        /\ d_data[1] \div 16 = GAD_TYPE_ELL_POINT_UNC_CIRCLE) =>
        (gad.lat = 0 /\ gad.lon = 0 /\ gad.unc = 0)

\* the frame osmo_gad_enc writes for p into an empty msgb
FrameOf(p) == osmo_gad_enc(<< >>, p).msg

\* the msgb is the frames of the successful calls, in call order
MsgIsSentFrames ==
    /\ Len(msg) = 8 * Len(sent)
    /\ \A i \in 1..Len(sent) :
          /\ sent[i].type = GAD_TYPE_ELL_POINT_UNC_CIRCLE
          /\ SubSeq(msg, (8 * (i - 1)) + 1, 8 * i) = FrameOf(sent[i])

\* a call of osmo_gad_enc appends 8 bytes and returns 8, or appends nothing
\* and returns -ENOTSUP; the bytes before it stay as they were
EncStepAppends ==
    evars' # evars =>
        \/ /\ pdu'.type = GAD_TYPE_ELL_POINT_UNC_CIRCLE
           /\ enc_rc' = 8
           /\ Len(msg') = Len(msg) + 8
           /\ SubSeq(msg', 1, Len(msg)) = msg
        \/ /\ pdu'.type # GAD_TYPE_ELL_POINT_UNC_CIRCLE
           /\ enc_rc' = -ENOTSUP
           /\ msg' = msg

\* C8: over any sequence of osmo_gad_enc calls on one msgb, each call appends
\* one whole 8-byte frame and returns 8 (EllPointUncCircle) or appends nothing
\* and returns -ENOTSUP (any other type); earlier bytes are never changed, so
\* the msgb is the concatenation of the frames of the successful calls.
C8_EncAppendOnly == [][EncStepAppends]_vars /\ []MsgIsSentFrames

\* an unsupported PDU was refused after two frames had been appended
C8_Witness ==
    /\ Len(sent) = 2
    /\ Len(msg) = 16
    /\ enc_rc = -ENOTSUP
    /\ sent[1] # sent[2]

\* byte n (from 0) of the i-th frame of the msgb
FrameByte(i, n) == msg[(8 * (i - 1)) + n + 1]

\* the 24-bit value of bytes n, n + 1, n + 2 of the i-th frame, most
\* significant byte first
FrameU24(i, n) ==
    (FrameByte(i, n) * 2^16) + (FrameByte(i, n + 1) * 2^8) + FrameByte(i, n + 2)

\* C12: the frame osmo_gad_enc writes for an EllPointUncCircle PDU is 8 bytes:
\* byte 0 is 0x10, bytes 1-3 are osmo_gad_enc_lat(lat) and bytes 4-6 are
\* osmo_gad_enc_lon(lon), both most significant byte first, and byte 7 is
\* osmo_gad_enc_unc(unc), with bit 7 clear.
C12_FrameLayout ==
    /\ Len(msg) = 8 * Len(sent)
    /\ \A i \in 1..Len(sent) :
          LET v == sent[i]
          IN  /\ \A n \in 0..7 : FrameByte(i, n) \in 0..255
              /\ FrameByte(i, 0) = 16
              /\ FrameU24(i, 1) = osmo_gad_enc_lat(v.lat)
              /\ FrameU24(i, 4) = osmo_gad_enc_lon(v.lon)
              /\ FrameByte(i, 7) = osmo_gad_enc_unc(v.unc)
              /\ FrameByte(i, 7) < 128

\* the PDU of test_gad_enc_dec was encoded to 10 20 b6 0c 1d dd de 28, and
\* after it one with unc = 0xffffffff was encoded with 0x7f as its byte 7
C12_Witness ==
    /\ Len(sent) = 2
    /\ sent[1] = Pdu(GAD_TYPE_ELL_POINT_UNC_CIRCLE, 23000006, 42000002, 442592, 0)
    /\ SubSeq(msg, 1, 8) = <<16, 32, 182, 12, 29, 221, 222, 40>>
    /\ sent[2].unc = Word(255)
    /\ FrameByte(2, 7) = 127

\* the type codes of enum gad_type
StandardTypes == {0, 1, 3, 5, 8, 9, 10, 11, 12}

\* byte 0 of the decoder's input carries a type other than EllPointUncCircle
OtherTypeDecoded ==
    /\ d_called
    /\ d_len >= 1
    /\ d_data[1] \div 16 # GAD_TYPE_ELL_POINT_UNC_CIRCLE

\* C9: osmo_gad_enc of a PDU of any type other than EllPointUncCircle returns
\* -ENOTSUP and appends nothing; osmo_gad_dec of a non-empty input whose type
\* nibble is not 1 returns -ENOTSUP for every length, and the error record
\* carries the nibble and the type name of the nibble in its message.
C9_OtherTypesNotSupported ==
    /\ (enc_rc # 0 /\ pdu.type # GAD_TYPE_ELL_POINT_UNC_CIRCLE) => enc_rc = -ENOTSUP
    /\ Len(msg) = 8 * Len(sent)
    /\ \A i \in 1..Len(sent) : sent[i].type = GAD_TYPE_ELL_POINT_UNC_CIRCLE
    /\ OtherTypeDecoded =>
          LET n == d_data[1] \div 16
          IN  /\ dec_rc = -ENOTSUP
              /\ ~d_err => err = NULL
              /\ d_err =>
                    /\ err # NULL
                    /\ err[1].rc = -ENOTSUP
                    /\ err[1].type = n
                    /\ err[1].logmsg[2] = " "
                    /\ err[1].logmsg[3] = osmo_gad_type_name(n)
                    /\ n \in StandardTypes =>
                          \E i \in 1..Len(osmo_gad_type_names) :
                              /\ osmo_gad_type_names[i][1] = n
                              /\ err[1].logmsg[3] = <<osmo_gad_type_names[i][2]>>

\* a polygon frame of full length was refused with an error record
C9_Witness ==
    /\ OtherTypeDecoded
    /\ d_len = 8
    /\ d_data[1] \div 16 = 5
    /\ d_err
    /\ dec_rc = -ENOTSUP
    /\ err[1].type = 5
    /\ err[1].logmsg[3] = <<"Polygon">>

\* the class of the decoder's input
InputClass ==
    IF d_len = 0 THEN "EmptyInput"
    ELSE IF d_data[1] \div 16 # GAD_TYPE_ELL_POINT_UNC_CIRCLE THEN "NotSupported"
    ELSE IF d_len # 8 THEN "InvalidLength"
    ELSE IF Bit(d_data[8], 7) = 1 THEN "ReservedBitSet"
    ELSE "Ok"

\* what each class of input yields: the return value, and the error record
\* when the caller asked for one
Classified ==
    d_called =>
        /\ ~d_err => err = NULL
        /\ InputClass = "EmptyInput" =>
              /\ dec_rc = -EINVAL
              /\ d_err => /\ err # NULL
                          /\ err[1].rc = -EINVAL
                          /\ err[1].type = -1
                          /\ err[1].logmsg[3] = <<"">>
                          /\ err[1].logmsg[5] = "zero length"
        /\ InputClass = "InvalidLength" =>
              /\ dec_rc = -EINVAL
              /\ d_err => /\ err # NULL
                          /\ err[1].rc = -EINVAL
                          /\ err[1].type = GAD_TYPE_ELL_POINT_UNC_CIRCLE
                          /\ err[1].logmsg[3] = <<"">>
                          /\ err[1].logmsg[5] = "Expecting length of 8 bytes, got %u"
                          /\ err[1].logmsg[6] = <<d_len>>
        /\ InputClass = "ReservedBitSet" =>
              /\ dec_rc = -EINVAL
              /\ d_err => /\ err # NULL
                          /\ err[1].rc = -EINVAL
                          /\ err[1].type = GAD_TYPE_ELL_POINT_UNC_CIRCLE
                          /\ err[1].logmsg[3] = <<"">>
                          /\ err[1].logmsg[5] =
                                "Bit 8 of Uncertainty code should be zero (unc = 0x%x)"
                          /\ err[1].logmsg[6] = <<d_data[8]>>
        /\ InputClass = "Ok" => (dec_rc = 0 /\ err = NULL)

\* what the caller of osmo_gad_dec gets to see of a failure
Visible == <<dec_rc, err>>

ErrorClasses == {"EmptyInput", "InvalidLength", "ReservedBitSet"}

\* two calls in a row that fail in different classes look different
StepDistinguishes ==
    (/\ d_called
     /\ d_called'
     /\ InputClass \in ErrorClasses
     /\ InputClass' \in ErrorClasses
     /\ InputClass # InputClass') => Visible # Visible'

\* C10 as stated: zero length yields EmptyInput, type 1 with a length other
\* than 8 InvalidLength, 8 bytes of type 1 with bit 7 of byte 7 set
\* ReservedBitSet, 8 bytes of type 1 with that bit clear succeed; and the
\* caller can tell the three error classes apart.
C10_ClassesDistinguishable == []Classified /\ [][StepDistinguishes]_vars

\* C10 as amended: the classification holds; all three classes return
\* -EINVAL, and they differ only in the error record (EmptyInput: type -1,
\* the others type 1 and different messages), which a caller has only when it
\* passes an err.
C10_Classified ==
    /\ Classified
    /\ (d_called /\ InputClass \in ErrorClasses) => dec_rc = -EINVAL
    /\ (d_called /\ d_err /\ InputClass \in ErrorClasses) =>
          /\ (err[1].type = -1) = (InputClass = "EmptyInput")
          /\ (err[1].logmsg[5] = "Expecting length of 8 bytes, got %u")
                = (InputClass = "InvalidLength")
          /\ (err[1].logmsg[5] = "Bit 8 of Uncertainty code should be zero (unc = 0x%x)")
                = (InputClass = "ReservedBitSet")

\* 8 bytes of type 1 with a set low nibble and the reserved bit set were refused
C10_Witness ==
    /\ d_called
    /\ d_err
    /\ d_len = 8
    /\ d_data[1] = 31
    /\ InputClass = "ReservedBitSet"
    /\ dec_rc = -EINVAL
    /\ err[1].type = GAD_TYPE_ELL_POINT_UNC_CIRCLE

====
